---- MODULE Spec2Model ----
(***************************************************************************)
(* Model of app.py: a Flask front-end over the iptv-org catalog.  Two JSON *)
(* feeds are fetched, cached in one file for CACHE_TTL_SECONDS, joined in  *)
(* memory by load_data() and served by the routes index, channel_detail,   *)
(* play and force_refresh.                                                 *)
(*                                                                         *)
(* Strings are sequences of one-character strings, so that lower(), strip()*)
(* and the substring test are computed as Python computes them.  A Python  *)
(* dict is a sequence of [k, v] entries with distinct keys, in insertion   *)
(* order.  A JSON object is a record; an absent key is an absent field.    *)
(***************************************************************************)
EXTENDS Integers, Sequences, FiniteSets, TLC

\* ------------------------------------------------------------------------
\* Bounds of the model
\* ------------------------------------------------------------------------
NumThreads == 2
MaxRequests == 3
MaxConcRequests == 2
MaxTicks == 2

\* ------------------------------------------------------------------------
\* Program constants
\* ------------------------------------------------------------------------
CACHE_TTL_SECONDS == 60 * 30

Threads == 1..NumThreads

\* Python's None (a value no string of the feeds or of a request equals)
None == <<"None">>

Truthy(x) == x # None /\ x # <<>>

\* ------------------------------------------------------------------------
\* Strings
\* ------------------------------------------------------------------------
UpperChars == <<"A","B","C","D","E","F","G","H","I","J","K","L","M",
                "N","O","P","Q","R","S","T","U","V","W","X","Y","Z">>
LowerChars == <<"a","b","c","d","e","f","g","h","i","j","k","l","m",
                "n","o","p","q","r","s","t","u","v","w","x","y","z">>
DigitChars == <<"0","1","2","3","4","5","6","7","8","9">>

IndexIn(c, s) == IF \E i \in 1..Len(s) : s[i] = c
                 THEN CHOOSE i \in 1..Len(s) : s[i] = c
                 ELSE 0

\* code point of a character
Ord(c) == IF IndexIn(c, UpperChars) > 0 THEN 64 + IndexIn(c, UpperChars)
          ELSE IF IndexIn(c, LowerChars) > 0 THEN 96 + IndexIn(c, LowerChars)
          ELSE IF IndexIn(c, DigitChars) > 0 THEN 47 + IndexIn(c, DigitChars)
          ELSE IF c = " " THEN 32
          ELSE IF c = "-" THEN 45
          ELSE IF c = "+" THEN 43
          ELSE 0

LowerChar(c) == IF IndexIn(c, UpperChars) > 0
                THEN LowerChars[IndexIn(c, UpperChars)]
                ELSE c

\* str.lower()
Lower(s) == [i \in 1..Len(s) |-> LowerChar(s[i])]

IsSpace(c) == c = " "

RECURSIVE LStrip(_)
LStrip(s) == IF s # <<>> /\ IsSpace(Head(s)) THEN LStrip(Tail(s)) ELSE s

RECURSIVE RStrip(_)
RStrip(s) == IF s # <<>> /\ IsSpace(s[Len(s)])
             THEN RStrip(SubSeq(s, 1, Len(s) - 1))
             ELSE s

\* str.strip()
Strip(s) == RStrip(LStrip(s))

\* Python's  needle in hay  for strings
Contains(hay, needle) ==
    \E i \in 0..(Len(hay) - Len(needle)) : SubSeq(hay, i + 1, i + Len(needle)) = needle

\* Python's  a < b  for strings (code point order)
RECURSIVE StrLess(_, _)
StrLess(a, b) ==
    IF b = <<>> THEN FALSE
    ELSE IF a = <<>> THEN TRUE
    ELSE IF Ord(Head(a)) < Ord(Head(b)) THEN TRUE
    ELSE IF Ord(Head(a)) > Ord(Head(b)) THEN FALSE
    ELSE StrLess(Tail(a), Tail(b))

\* x or default
OrElse(x, d) == IF Truthy(x) THEN x ELSE d

\* dict.get(k) of a JSON object
Get(r, k) == IF k \in DOMAIN r THEN r[k] ELSE None

\* x in list
InList(x, l) == \E i \in 1..Len(l) : l[i] = x

\* ------------------------------------------------------------------------
\* Python dict: sequence of entries [k, v], distinct keys, insertion order
\* ------------------------------------------------------------------------
DictKeys(d) == {d[i].k : i \in 1..Len(d)}

DictHas(d, key) == \E i \in 1..Len(d) : d[i].k = key

DictGet(d, key) == d[CHOOSE i \in 1..Len(d) : d[i].k = key].v

\* d[key] = val : an existing key keeps its position
DictSet(d, key, val) ==
    IF DictHas(d, key)
    THEN [i \in 1..Len(d) |-> IF d[i].k = key THEN [k |-> key, v |-> val] ELSE d[i]]
    ELSE Append(d, [k |-> key, v |-> val])

\* the dict as a mapping, key order forgotten
AsMap(d) == [key \in DictKeys(d) |-> DictGet(d, key)]

\* ------------------------------------------------------------------------
\* The remote feeds: what fetch_json(CHANNELS_URL) and fetch_json(STREAMS_URL)
\* may return.  A feed is [shape, items, op]: op is the request that fetched it.
\* ------------------------------------------------------------------------
idA == <<"a">>
idB == <<"b">>
idC == <<"c">>
idG == <<"g">>
MX == <<"M","X">>
UK == <<"U","K">>
catNews == <<"n">>
catKids == <<"k">>
url1 == <<"u","1">>
url2 == <<"u","2">>
url3 == <<"u","3">>
url4 == <<"u","4">>
url5 == <<"u","5">>

chA    == [id |-> idA, name |-> <<"B","x">>, country |-> MX, categories |-> <<catNews, catKids>>]
chB    == [id |-> idB, country |-> UK, categories |-> <<>>]
chC    == [id |-> idC, name |-> <<"a","b">>, country |-> MX]
chA2   == [id |-> idA, name |-> <<"a","B">>, country |-> UK, categories |-> <<catNews>>]
chNoId == [name |-> <<"z">>, country |-> MX]

sA1      == [channel |-> idA, url |-> url1]
sA2      == [channel |-> idA, url |-> url2, quality |-> <<"7","2","0">>, referrer |-> <<"r">>]
sB1      == [channel |-> idB, url |-> url3, title |-> <<"t">>]
sGhost   == [channel |-> idG, url |-> url4]
sNoUrl   == [channel |-> idA]
sNoCh    == [url |-> url5]
sEmptyCh == [channel |-> <<>>, url |-> url5]
sEmptyUrl == [channel |-> idB, url |-> <<>>]

ChannelItems == { <<chA, chB, chC>>, <<chB, chA, chA2>>, <<chA, chNoId>> }
StreamItems  == { <<sA1, sGhost, sNoUrl, sA2, sNoCh, sB1>>,
                  <<sA2, sEmptyCh, sEmptyUrl, sA1>> }

NoFeed == [shape |-> "none", items |-> <<>>, op |-> 0]

ListFeed(items, op) == [shape |-> "list", items |-> items, op |-> op]

\* ------------------------------------------------------------------------
\* load_data: building the two maps from the payload
\* ------------------------------------------------------------------------
Channel(c) == [id |-> c.id,
               name |-> OrElse(Get(c, "name"), c.id),
               country |-> Get(c, "country"),
               categories |-> OrElse(Get(c, "categories"), <<>>)]

Stream(s) == [channel |-> Get(s, "channel"),
              url |-> Get(s, "url"),
              title |-> Get(s, "title"),
              quality |-> Get(s, "quality"),
              referrer |-> Get(s, "referrer"),
              user_agent |-> Get(s, "user_agent")]

\* for c in payload["channels"]: channels_by_id[c["id"]] = Channel(...)
RECURSIVE ChannelsLoop(_, _)
ChannelsLoop(items, acc) ==
    IF items = <<>> THEN [err |-> "", val |-> acc]
    ELSE IF "id" \notin DOMAIN Head(items) THEN [err |-> "KeyError", val |-> <<>>]
    ELSE ChannelsLoop(Tail(items), DictSet(acc, Head(items).id, Channel(Head(items))))

\* mutant: the stream is put in front of its group
SetDefaultAppend_Prepend(d, key, st) ==
    DictSet(d, key, <<st>> \o (IF DictHas(d, key) THEN DictGet(d, key) ELSE <<>>))

\* streams_by_channel.setdefault(ch, []).append(st)
SetDefaultAppend(d, key, st) ==
    DictSet(d, key, Append(IF DictHas(d, key) THEN DictGet(d, key) ELSE <<>>, st))

\* mutant: a record without url is not skipped
RECURSIVE StreamsLoop_KeepNoUrl(_, _)
StreamsLoop_KeepNoUrl(items, acc) ==
    IF items = <<>> THEN acc
    ELSE LET s == Head(items)
             ch == Get(s, "channel")
         IN IF ~Truthy(ch)
            THEN StreamsLoop_KeepNoUrl(Tail(items), acc)
            ELSE StreamsLoop_KeepNoUrl(Tail(items), SetDefaultAppend(acc, ch, Stream(s)))

\* for s in payload["streams"]: skip when no channel or no url, else group
RECURSIVE StreamsLoop(_, _)
StreamsLoop(items, acc) ==
    IF items = <<>> THEN acc
    ELSE LET s == Head(items)
             ch == Get(s, "channel")
             url == Get(s, "url")
         IN IF ~Truthy(ch) \/ ~Truthy(url)
            THEN StreamsLoop(Tail(items), acc)
            ELSE StreamsLoop(Tail(items), SetDefaultAppend(acc, ch, Stream(s)))

\* mutant: the groups of unknown channels are kept
KeepKnown_All(sbc, cbi) == sbc

\* {k: v for k, v in streams_by_channel.items() if k in channels_by_id}
KeepKnown(sbc, cbi) == SelectSeq(sbc, LAMBDA e : DictHas(cbi, e.k))

NoMaps == [channels_by_id |-> <<>>, streams_by_channel |-> <<>>]

\* lines 77-105 of load_data: [err, maps]
BuildMaps(payload) ==
    LET cl == ChannelsLoop(payload.channels.items, <<>>)
    IN IF cl.err # "" THEN [err |-> cl.err, maps |-> NoMaps]
       ELSE [err |-> "",
             maps |-> [channels_by_id |-> cl.val,
                       streams_by_channel |->
                           KeepKnown(StreamsLoop(payload.streams.items, <<>>), cl.val)]]

\* ------------------------------------------------------------------------
\* The cache file: json.dump / json.load
\* The text of the file is a sequence of chunks, in the order json.dump
\* emits them; a writer's buffer reaches the file chunk by chunk.
\* ------------------------------------------------------------------------
Chunk(key, val) == [k |-> key, v |-> val]

Hole == Chunk("hole", NoFeed)

\* mutant: the last stream record does not reach the file
JsonDump_Lossy(payload) ==
    << Chunk("channels", payload.channels),
       Chunk("streams", [payload.streams EXCEPT
                            !.items = SubSeq(@, 1, Len(@) - 1)]),
       Chunk("end", NoFeed) >>

\* json.dump({"channels": channels_raw, "streams": streams_raw}, f)
JsonDump(payload) == << Chunk("channels", payload.channels),
                        Chunk("streams", payload.streams),
                        Chunk("end", NoFeed) >>

WellFormed(text) == /\ Len(text) = 3
                    /\ text[1].k = "channels"
                    /\ text[2].k = "streams"
                    /\ text[3].k = "end"

\* json.load(f): [err, payload]
JsonLoad(text) ==
    IF WellFormed(text)
    THEN [err |-> "", payload |-> [channels |-> text[1].v, streams |-> text[2].v]]
    ELSE [err |-> "JSONDecodeError", payload |-> [channels |-> NoFeed, streams |-> NoFeed]]

NoFile == [exists |-> FALSE, mtime |-> 0, text |-> <<>>]

\* open(CACHE_FILE, "w"): creates or truncates
OpenW(clock) == [exists |-> TRUE, mtime |-> clock, text |-> <<>>]

\* the writer's buffer reaches the file at the writer's own offset
WriteAt(f, pos, chunks, clock) ==
    LET end == pos + Len(chunks) - 1
        n == IF Len(f.text) > end THEN Len(f.text) ELSE end
    IN [exists |-> TRUE, mtime |-> clock,
        text |-> [i \in 1..n |-> IF i >= pos /\ i <= end THEN chunks[i - pos + 1]
                                  ELSE IF i <= Len(f.text) THEN f.text[i]
                                  ELSE Hole]]

\* mutant: age <= ttl
IsCacheFresh_Inclusive(f, clock, ttl) ==
    IF ~f.exists THEN FALSE
    ELSE clock - f.mtime <= ttl

\* _is_cache_fresh(path, ttl)
IsCacheFresh(f, clock, ttl) ==
    IF ~f.exists THEN FALSE
    ELSE clock - f.mtime < ttl

\* ------------------------------------------------------------------------
\* index(): filters and order of the listing
\* ------------------------------------------------------------------------
DefaultCountry == MX

RECURSIVE SetToSortedSeq(_)
SetToSortedSeq(S) ==
    IF S = {} THEN <<>>
    ELSE LET m == CHOOSE x \in S : \A y \in S \ {x} : StrLess(x, y)
         IN <<m>> \o SetToSortedSeq(S \ {m})

\* mutant: the text is not looked for in the channel id
Listed_NameOnly(chId, ch, sbc, q, country, category) ==
    /\ DictHas(sbc, chId)
    /\ ~(country # <<>> /\ ch.country # country)
    /\ ~(category # <<>> /\ ~InList(category, ch.categories))
    /\ ~(q # <<>> /\ ~Contains(Lower(ch.name), q))

\* the channel passes the filters of lines 289-299
Listed(chId, ch, sbc, q, country, category) ==
    /\ DictHas(sbc, chId)
    /\ ~(country # <<>> /\ ch.country # country)
    /\ ~(category # <<>> /\ ~InList(category, ch.categories))
    /\ ~(q # <<>> /\ ~Contains(Lower(ch.name), q) /\ ~Contains(Lower(ch.id), q))

\* mutant: channels without streams are listed with an empty stream list
RECURSIVE ItemsLoop_AllChannels(_, _, _, _, _)
ItemsLoop_AllChannels(entries, sbc, q, country, category) ==
    IF entries = <<>> THEN <<>>
    ELSE LET e == Head(entries)
             rest == ItemsLoop_AllChannels(Tail(entries), sbc, q, country, category)
         IN IF \/ Listed(e.k, e.v, sbc, q, country, category)
               \/ (~DictHas(sbc, e.k) /\ Listed(e.k, e.v, <<[k |-> e.k, v |-> <<>>]>>,
                                                 q, country, category))
            THEN <<[channel |-> e.v,
                    streams |-> IF DictHas(sbc, e.k) THEN DictGet(sbc, e.k) ELSE <<>>]>> \o rest
            ELSE rest

RECURSIVE ItemsLoop(_, _, _, _, _)
ItemsLoop(entries, sbc, q, country, category) ==
    IF entries = <<>> THEN <<>>
    ELSE LET e == Head(entries)
             rest == ItemsLoop(Tail(entries), sbc, q, country, category)
         IN IF Listed(e.k, e.v, sbc, q, country, category)
            THEN <<[channel |-> e.v, streams |-> DictGet(sbc, e.k)]>> \o rest
            ELSE rest

\* mutant: the names are compared as they are
SortKey_CaseSensitive(item) == item.channel.name

SortKey(item) == Lower(item.channel.name)

\* list.sort(key=...) is stable: x goes after the items whose key is <= its key
RECURSIVE InsertSorted(_, _)
InsertSorted(x, s) ==
    IF s = <<>> THEN <<x>>
    ELSE IF StrLess(SortKey(x), SortKey(Head(s))) THEN <<x>> \o s
    ELSE <<Head(s)>> \o InsertSorted(x, Tail(s))

RECURSIVE SortLoop(_, _)
SortLoop(items, acc) ==
    IF items = <<>> THEN acc
    ELSE SortLoop(Tail(items), InsertSorted(Head(items), acc))

SortItems(items) == SortLoop(items, <<>>)

\* the context index() hands to the template, from the raw query arguments
IndexView(m, qArg, countryArg, categoryArg) ==
    LET q == Lower(Strip(OrElse(qArg, <<>>)))
        country == Strip(OrElse(countryArg, DefaultCountry))
        category == Strip(OrElse(categoryArg, <<>>))
        cbi == m.channels_by_id
        items == SortItems(ItemsLoop(cbi, m.streams_by_channel, q, country, category))
    IN [status |-> 200, view |-> "index",
        args |-> [q |-> qArg, country |-> countryArg, category |-> categoryArg],
        items |-> items,
        q |-> q, country |-> country, category |-> category,
        countries |-> SetToSortedSeq({cbi[i].v.country : i \in 1..Len(cbi)} \ {None, <<>>}),
        categories |-> SetToSortedSeq(UNION {{cbi[i].v.categories[j] :
                                               j \in 1..Len(cbi[i].v.categories)} :
                                             i \in 1..Len(cbi)}),
        results_count |-> Len(items)]

\* channel_detail(channel_id)
DetailView(m, channel_id) ==
    IF ~DictHas(m.channels_by_id, channel_id)
    THEN [status |-> 404, view |-> "detail", channel_id |-> channel_id]
    ELSE [status |-> 200, view |-> "detail", channel_id |-> channel_id,
          ch |-> DictGet(m.channels_by_id, channel_id),
          streams |-> IF DictHas(m.streams_by_channel, channel_id)
                      THEN DictGet(m.streams_by_channel, channel_id)
                      ELSE <<>>]

\* ------------------------------------------------------------------------
\* play(): int(request.form.get("stream_index") or "0")
\* ------------------------------------------------------------------------
RECURSIVE DigitsVal(_)
DigitsVal(ds) == IF ds = <<>> THEN 0
                 ELSE 10 * DigitsVal(SubSeq(ds, 1, Len(ds) - 1))
                      + (IndexIn(ds[Len(ds)], DigitChars) - 1)

\* int(s): [ok, val]; ok = FALSE is ValueError
IntOf(s) ==
    LET t == Strip(s)
        signed == t # <<>> /\ Head(t) \in {"-", "+"}
        body == IF signed THEN Tail(t) ELSE t
    IN IF body = <<>> \/ \E i \in 1..Len(body) : IndexIn(body[i], DigitChars) = 0
       THEN [ok |-> FALSE, val |-> 0]
       ELSE [ok |-> TRUE,
             val |-> IF signed /\ Head(t) = "-" THEN 0 - DigitsVal(body) ELSE DigitsVal(body)]

StreamIndexOf(arg) ==
    LET r == IntOf(OrElse(arg, <<"0">>))
    IN IF r.ok THEN r.val ELSE 0

\* ------------------------------------------------------------------------
\* State
\* ------------------------------------------------------------------------
VARIABLES
    now,        \* time.time()
    nticks,     \* clock advances so far
    nreq,       \* requests received so far
    file,       \* CACHE_FILE: [exists, mtime, text]
    pc,         \* where each request thread is
    req,        \* the request a thread serves: [kind, op]
    loc,        \* load_data / refresh_cache locals: channels_raw, streams_raw, payload
    load,       \* the load_data call of the request: branch taken, fetches, outcome
    maps,       \* what load_data returned
    resp,       \* the response of the request
    launched,   \* players started by launch_mpv
    fetched,    \* when the snapshot in the file was fetched (its first fetch)
    prev        \* the last load_data / refresh_cache call of a finished request

vars == <<now, nticks, nreq, file, pc, req, loc, load, maps, resp, launched, fetched, prev>>

Kinds == {"index", "detail", "play", "refresh"}

\* what a request may carry
QArgs == {None, <<" ","B"," ">>, <<"a">>}
CountryArgs == {None, <<>>, <<" ">>, UK}
CategoryArgs == {None, catNews}
ChannelIdArgs == {idA, idB, idC, idG}
PlayChannelArgs == {None, idA, <<" ","b">>, idC}
StreamIndexArgs == {None, <<"1">>, <<"-","1">>, <<"x">>, <<"2">>}

\* the ways the clock advances between two steps
Deltas == {1, CACHE_TTL_SECONDS - 1}

NoPayload == [channels |-> NoFeed, streams |-> NoFeed]
\* t0: when channels_raw was fetched
NoLoc == [channels_raw |-> NoFeed, streams_raw |-> NoFeed, payload |-> NoPayload, t0 |-> 0]
\* within: the artifact existed and was younger than the TTL when the call checked it
NoLoad == [state |-> "none", fresh |-> FALSE, fetches |-> 0, error |-> "", text |-> <<>>,
           within |-> FALSE]
NoResp == [status |-> 0, view |-> "none"]
NoReq == [kind |-> "none", op |-> 0]
NoPrev == [kind |-> "none", state |-> "none", fresh |-> FALSE, maps |-> NoMaps, text |-> <<>>,
           page |-> <<>>]

\* the play forms of a rendered page: channel id -> the streams that got a
\* Play button, in the order of their stream_index (TEMPLATE shows the first
\* three streams of an item, DETAIL_TEMPLATE all of them)
FirstThree(streams) == SubSeq(streams, 1, IF Len(streams) < 3 THEN Len(streams) ELSE 3)

Displayed(r) ==
    IF r.view = "index"
    THEN [n \in 1..Len(r.items) |-> [k |-> r.items[n].channel.id,
                                     v |-> FirstThree(r.items[n].streams)]]
    ELSE IF r.view = "detail" /\ r.status = 200
    THEN <<[k |-> r.ch.id, v |-> r.streams]>>
    ELSE <<>>

Init ==
    /\ now = 0
    /\ nticks = 0
    /\ nreq = 0
    /\ file = NoFile
    /\ pc = [t \in Threads |-> "idle"]
    /\ req = [t \in Threads |-> NoReq]
    /\ loc = [t \in Threads |-> NoLoc]
    /\ load = [t \in Threads |-> NoLoad]
    /\ maps = [t \in Threads |-> NoMaps]
    /\ resp = [t \in Threads |-> NoResp]
    /\ launched = <<>>
    /\ fetched = 0
    /\ prev = NoPrev

\* time passes
Tick ==
    /\ nticks < MaxTicks
    /\ \E d \in Deltas : now' = now + d
    /\ nticks' = nticks + 1
    /\ UNCHANGED <<nreq, file, pc, req, loc, load, maps, resp, launched, prev, fetched>>

\* a request arrives and a thread starts its handler
StartRequest(t, limit) ==
    /\ pc[t] = "idle"
    /\ nreq < limit
    /\ \E kind \in Kinds :
         /\ req' = [req EXCEPT ![t] = [kind |-> kind, op |-> nreq + 1]]
         /\ pc' = [pc EXCEPT ![t] = IF kind = "refresh" THEN "rf_fetch_ch" ELSE "ld_check"]
    /\ nreq' = nreq + 1
    /\ UNCHANGED <<now, nticks, file, loc, load, maps, resp, launched, prev, fetched>>

Start(t) == StartRequest(t, MaxRequests)

ConcStart(t) == StartRequest(t, MaxConcRequests)

\* an exception leaves the handler: the response is a 500
Raise(t, err) ==
    /\ pc' = [pc EXCEPT ![t] = "done"]
    /\ resp' = [resp EXCEPT ![t] = [status |-> 500, view |-> "error", error |-> err]]

\* mutant: the cache is never used
LoadCheck_AlwaysFetch(t) ==
    /\ pc[t] = "ld_check"
    /\ load' = [load EXCEPT ![t] = [NoLoad EXCEPT !.state = "running", !.fresh = FALSE,
                                                   !.within = file.exists /\
                                                       now - file.mtime < CACHE_TTL_SECONDS]]
    /\ pc' = [pc EXCEPT ![t] = "ld_fetch_ch"]
    /\ UNCHANGED <<now, nticks, nreq, file, req, loc, maps, resp, launched, prev, fetched>>

\* load_data, line 67: if _is_cache_fresh(CACHE_FILE, CACHE_TTL_SECONDS)
LoadCheck(t) ==
    /\ pc[t] = "ld_check"
    /\ LET fr == IsCacheFresh(file, now, CACHE_TTL_SECONDS)
       IN /\ load' = [load EXCEPT ![t] = [NoLoad EXCEPT !.state = "running", !.fresh = fr,
                                                        !.within = file.exists /\
                                                            now - file.mtime < CACHE_TTL_SECONDS]]
          /\ pc' = [pc EXCEPT ![t] = IF fr THEN "ld_read" ELSE "ld_fetch_ch"]
    /\ UNCHANGED <<now, nticks, nreq, file, req, loc, maps, resp, launched, prev, fetched>>

\* mutant: reading the cache file renews its modification time
LoadRead_Touches(t) ==
    /\ pc[t] = "ld_read"
    /\ file' = [file EXCEPT !.mtime = now]
    /\ LET r == JsonLoad(file.text)
       IN IF r.err # ""
          THEN /\ Raise(t, r.err)
               /\ load' = [load EXCEPT ![t].state = "raised", ![t].error = r.err,
                                       ![t].text = file.text]
               /\ loc' = loc
          ELSE /\ pc' = [pc EXCEPT ![t] = "ld_parse"]
               /\ load' = [load EXCEPT ![t].text = file.text]
               /\ loc' = [loc EXCEPT ![t].payload = r.payload]
               /\ resp' = resp
    /\ UNCHANGED <<now, nticks, nreq, req, maps, launched, prev, fetched>>

\* load_data, lines 68-69: payload = json.load(f)
LoadRead(t) ==
    /\ pc[t] = "ld_read"
    /\ LET r == JsonLoad(file.text)
       IN IF r.err # ""
          THEN /\ Raise(t, r.err)
               /\ load' = [load EXCEPT ![t].state = "raised", ![t].error = r.err,
                                       ![t].text = file.text]
               /\ loc' = loc
          ELSE /\ pc' = [pc EXCEPT ![t] = "ld_parse"]
               /\ load' = [load EXCEPT ![t].text = file.text]
               /\ loc' = [loc EXCEPT ![t].payload = r.payload]
               /\ resp' = resp
    /\ UNCHANGED <<now, nticks, nreq, file, req, maps, launched, prev, fetched>>

\* load_data, line 71: channels_raw = fetch_json(CHANNELS_URL)
LoadFetchChannels(t) ==
    /\ pc[t] = "ld_fetch_ch"
    /\ \/ \E items \in ChannelItems :
            /\ loc' = [loc EXCEPT ![t].channels_raw = ListFeed(items, req[t].op),
                                  ![t].t0 = now]
            /\ load' = [load EXCEPT ![t].fetches = @ + 1]
            /\ pc' = [pc EXCEPT ![t] = "ld_fetch_st"]
            /\ resp' = resp
       \/ /\ Raise(t, "FetchError")
          /\ load' = [load EXCEPT ![t].fetches = @ + 1, ![t].state = "raised",
                                  ![t].error = "FetchError"]
          /\ loc' = loc
    /\ UNCHANGED <<now, nticks, nreq, file, req, maps, launched, prev, fetched>>

\* mutant: the file is opened for writing before the streams are fetched
LoadFetchStreams_OpenFirst(t) ==
    /\ pc[t] = "ld_fetch_st"
    /\ file' = OpenW(now)
    /\ \/ \E items \in StreamItems :
            LET sr == ListFeed(items, req[t].op)
            IN /\ loc' = [loc EXCEPT ![t].streams_raw = sr,
                                     ![t].payload = [channels |-> loc[t].channels_raw,
                                                     streams |-> sr]]
               /\ load' = [load EXCEPT ![t].fetches = @ + 1]
               /\ pc' = [pc EXCEPT ![t] = "ld_write"]
               /\ resp' = resp
       \/ /\ Raise(t, "FetchError")
          /\ load' = [load EXCEPT ![t].fetches = @ + 1, ![t].state = "raised",
                                  ![t].error = "FetchError"]
          /\ loc' = loc
    /\ UNCHANGED <<now, nticks, nreq, req, maps, launched, prev, fetched>>

\* load_data, lines 72-73: streams_raw = fetch_json(STREAMS_URL); payload = {...}
LoadFetchStreams(t) ==
    /\ pc[t] = "ld_fetch_st"
    /\ \/ \E items \in StreamItems :
            LET sr == ListFeed(items, req[t].op)
            IN /\ loc' = [loc EXCEPT ![t].streams_raw = sr,
                                     ![t].payload = [channels |-> loc[t].channels_raw,
                                                     streams |-> sr]]
               /\ load' = [load EXCEPT ![t].fetches = @ + 1]
               /\ pc' = [pc EXCEPT ![t] = "ld_open"]
               /\ resp' = resp
       \/ /\ Raise(t, "FetchError")
          /\ load' = [load EXCEPT ![t].fetches = @ + 1, ![t].state = "raised",
                                  ![t].error = "FetchError"]
          /\ loc' = loc
    /\ UNCHANGED <<now, nticks, nreq, file, req, maps, launched, prev, fetched>>

\* load_data, line 74: open(CACHE_FILE, "w")
LoadOpen(t) ==
    /\ pc[t] = "ld_open"
    /\ file' = OpenW(now)
    /\ pc' = [pc EXCEPT ![t] = "ld_write"]
    /\ UNCHANGED <<now, nticks, nreq, req, loc, load, maps, resp, launched, prev, fetched>>

\* load_data, line 75: json.dump fills the buffer, which starts reaching the file
LoadWrite(t) ==
    /\ pc[t] = "ld_write"
    /\ file' = WriteAt(file, 1, SubSeq(JsonDump(loc[t].payload), 1, 1), now)
    /\ pc' = [pc EXCEPT ![t] = "ld_close"]
    /\ UNCHANGED <<now, nticks, nreq, req, loc, load, maps, resp, launched, prev, fetched>>

\* load_data, end of the with block: the rest is flushed and the file closed
LoadClose(t) ==
    /\ pc[t] = "ld_close"
    /\ file' = WriteAt(file, 2, SubSeq(JsonDump(loc[t].payload), 2, 3), now)
    /\ load' = [load EXCEPT ![t].text = JsonDump(loc[t].payload)]
    /\ fetched' = loc[t].t0
    /\ pc' = [pc EXCEPT ![t] = "ld_parse"]
    /\ UNCHANGED <<now, nticks, nreq, req, loc, maps, resp, launched, prev>>

\* load_data, lines 77-105: build the maps and return them
LoadParse(t) ==
    /\ pc[t] = "ld_parse"
    /\ LET r == BuildMaps(loc[t].payload)
       IN IF r.err # ""
          THEN /\ Raise(t, r.err)
               /\ load' = [load EXCEPT ![t].state = "raised", ![t].error = r.err]
               /\ maps' = maps
          ELSE /\ pc' = [pc EXCEPT ![t] = req[t].kind]
               /\ load' = [load EXCEPT ![t].state = "returned"]
               /\ maps' = [maps EXCEPT ![t] = r.maps]
               /\ resp' = resp
    /\ UNCHANGED <<now, nticks, nreq, file, req, loc, launched, prev, fetched>>

\* index(), lines 277-318
Index(t) ==
    /\ pc[t] = "index"
    /\ \E qArg \in QArgs, countryArg \in CountryArgs, categoryArg \in CategoryArgs :
         resp' = [resp EXCEPT ![t] = IndexView(maps[t], qArg, countryArg, categoryArg)]
    /\ pc' = [pc EXCEPT ![t] = "done"]
    /\ UNCHANGED <<now, nticks, nreq, file, req, loc, load, maps, launched, prev, fetched>>

\* channel_detail(channel_id), lines 323-328
ChannelDetail(t) ==
    /\ pc[t] = "detail"
    /\ \E channel_id \in ChannelIdArgs :
         resp' = [resp EXCEPT ![t] = DetailView(maps[t], channel_id)]
    /\ pc' = [pc EXCEPT ![t] = "done"]
    /\ UNCHANGED <<now, nticks, nreq, file, req, loc, load, maps, launched, prev, fetched>>

\* mutant: a negative index is not refused and counts from the end of the list
Play_NoNegativeCheck(t) ==
    /\ pc[t] = "play"
    /\ \E cidArg \in PlayChannelArgs, idxArg \in StreamIndexArgs :
         LET channel_id == Strip(OrElse(cidArg, <<>>))
             stream_index == StreamIndexOf(idxArg)
             sbc == maps[t].streams_by_channel
             form == [channel_id |-> channel_id, stream_index |-> stream_index]
         IN IF ~DictHas(sbc, channel_id)
            THEN /\ resp' = [resp EXCEPT ![t] = [status |-> 404, view |-> "play", form |-> form]]
                 /\ launched' = launched
            ELSE IF \/ stream_index >= Len(DictGet(sbc, channel_id))
                    \/ 0 - stream_index > Len(DictGet(sbc, channel_id))
            THEN /\ resp' = [resp EXCEPT ![t] = [status |-> 400, view |-> "play", form |-> form]]
                 /\ launched' = launched
            ELSE LET streams == DictGet(sbc, channel_id)
                     pos == IF stream_index < 0 THEN Len(streams) + stream_index + 1
                            ELSE stream_index + 1
                 IN \/ /\ launched' = Append(launched, [op |-> req[t].op,
                                                        url |-> streams[pos].url])
                       /\ resp' = [resp EXCEPT ![t] = [status |-> 302, view |-> "play",
                                                        form |-> form]]
                    \/ /\ launched' = launched
                       /\ resp' = [resp EXCEPT ![t] = [status |-> 500, view |-> "error",
                                                        error |-> "OSError"]]
    /\ pc' = [pc EXCEPT ![t] = "done"]
    /\ UNCHANGED <<now, nticks, nreq, file, req, loc, load, maps, prev, fetched>>

\* play(), lines 332-347; launch_mpv may fail to start the player
Play(t) ==
    /\ pc[t] = "play"
    /\ \E cidArg \in PlayChannelArgs, idxArg \in StreamIndexArgs :
         LET channel_id == Strip(OrElse(cidArg, <<>>))
             stream_index == StreamIndexOf(idxArg)
             sbc == maps[t].streams_by_channel
             form == [channel_id |-> channel_id, stream_index |-> stream_index]
         IN IF ~DictHas(sbc, channel_id)
            THEN /\ resp' = [resp EXCEPT ![t] = [status |-> 404, view |-> "play", form |-> form]]
                 /\ launched' = launched
            ELSE IF stream_index < 0 \/ stream_index >= Len(DictGet(sbc, channel_id))
            THEN /\ resp' = [resp EXCEPT ![t] = [status |-> 400, view |-> "play", form |-> form]]
                 /\ launched' = launched
            ELSE \/ /\ launched' = Append(launched,
                                          [op |-> req[t].op,
                                           url |-> DictGet(sbc, channel_id)[stream_index + 1].url])
                    /\ resp' = [resp EXCEPT ![t] = [status |-> 302, view |-> "play", form |-> form]]
                 \/ /\ launched' = launched
                    /\ resp' = [resp EXCEPT ![t] = [status |-> 500, view |-> "error",
                                                     error |-> "OSError"]]
    /\ pc' = [pc EXCEPT ![t] = "done"]
    /\ UNCHANGED <<now, nticks, nreq, file, req, loc, load, maps, prev, fetched>>

\* refresh_cache, line 109
RefreshFetchChannels(t) ==
    /\ pc[t] = "rf_fetch_ch"
    /\ \/ \E items \in ChannelItems :
            /\ loc' = [loc EXCEPT ![t].channels_raw = ListFeed(items, req[t].op),
                                  ![t].t0 = now]
            /\ pc' = [pc EXCEPT ![t] = "rf_fetch_st"]
            /\ resp' = resp
       \/ /\ Raise(t, "FetchError")
          /\ loc' = loc
    /\ UNCHANGED <<now, nticks, nreq, file, req, load, maps, launched, prev, fetched>>

\* mutant: the file is opened for writing before the streams are fetched
RefreshFetchStreams_OpenFirst(t) ==
    /\ pc[t] = "rf_fetch_st"
    /\ file' = OpenW(now)
    /\ \/ \E items \in StreamItems :
            LET sr == ListFeed(items, req[t].op)
            IN /\ loc' = [loc EXCEPT ![t].streams_raw = sr,
                                     ![t].payload = [channels |-> loc[t].channels_raw,
                                                     streams |-> sr]]
               /\ pc' = [pc EXCEPT ![t] = "rf_write"]
               /\ resp' = resp
       \/ /\ Raise(t, "FetchError")
          /\ loc' = loc
    /\ UNCHANGED <<now, nticks, nreq, req, load, maps, launched, prev, fetched>>

\* refresh_cache, lines 110-111
RefreshFetchStreams(t) ==
    /\ pc[t] = "rf_fetch_st"
    /\ \/ \E items \in StreamItems :
            LET sr == ListFeed(items, req[t].op)
            IN /\ loc' = [loc EXCEPT ![t].streams_raw = sr,
                                     ![t].payload = [channels |-> loc[t].channels_raw,
                                                     streams |-> sr]]
               /\ pc' = [pc EXCEPT ![t] = "rf_open"]
               /\ resp' = resp
       \/ /\ Raise(t, "FetchError")
          /\ loc' = loc
    /\ UNCHANGED <<now, nticks, nreq, file, req, load, maps, launched, prev, fetched>>

\* refresh_cache, line 112
RefreshOpen(t) ==
    /\ pc[t] = "rf_open"
    /\ file' = OpenW(now)
    /\ pc' = [pc EXCEPT ![t] = "rf_write"]
    /\ UNCHANGED <<now, nticks, nreq, req, loc, load, maps, resp, launched, prev, fetched>>

\* refresh_cache, line 113
RefreshWrite(t) ==
    /\ pc[t] = "rf_write"
    /\ file' = WriteAt(file, 1, SubSeq(JsonDump(loc[t].payload), 1, 1), now)
    /\ pc' = [pc EXCEPT ![t] = "rf_close"]
    /\ UNCHANGED <<now, nticks, nreq, req, loc, load, maps, resp, launched, prev, fetched>>

\* refresh_cache, end of the with block; force_refresh then redirects
RefreshClose(t) ==
    /\ pc[t] = "rf_close"
    /\ file' = WriteAt(file, 2, SubSeq(JsonDump(loc[t].payload), 2, 3), now)
    /\ resp' = [resp EXCEPT ![t] = [status |-> 302, view |-> "refresh"]]
    /\ fetched' = loc[t].t0
    /\ pc' = [pc EXCEPT ![t] = "done"]
    /\ UNCHANGED <<now, nticks, nreq, req, loc, load, maps, launched, prev>>

\* the response is sent and the thread is free again
Finish(t) ==
    /\ pc[t] = "done"
    /\ prev' = IF req[t].kind = "refresh"
                THEN [kind |-> "refresh",
                      state |-> IF resp[t].status = 302 THEN "returned" ELSE "raised",
                      fresh |-> FALSE,
                      maps |-> NoMaps,
                      text |-> IF resp[t].status = 302 THEN JsonDump(loc[t].payload)
                               ELSE <<>>,
                      page |-> <<>>]
                ELSE [kind |-> "load",
                      state |-> load[t].state, fresh |-> load[t].fresh,
                      maps |-> maps[t], text |-> load[t].text,
                      page |-> Displayed(resp[t])]
    /\ pc' = [pc EXCEPT ![t] = "idle"]
    /\ req' = [req EXCEPT ![t] = NoReq]
    /\ loc' = [loc EXCEPT ![t] = NoLoc]
    /\ load' = [load EXCEPT ![t] = NoLoad]
    /\ maps' = [maps EXCEPT ![t] = NoMaps]
    /\ resp' = [resp EXCEPT ![t] = NoResp]
    /\ UNCHANGED <<now, nticks, nreq, file, launched, fetched>>

Body(t) ==
    \/ LoadCheck(t)
    \/ LoadRead(t)
    \/ LoadFetchChannels(t)
    \/ LoadFetchStreams(t)
    \/ LoadOpen(t)
    \/ LoadWrite(t)
    \/ LoadClose(t)
    \/ LoadParse(t)
    \/ Index(t)
    \/ ChannelDetail(t)
    \/ Play(t)
    \/ RefreshFetchChannels(t)
    \/ RefreshFetchStreams(t)
    \/ RefreshOpen(t)
    \/ RefreshWrite(t)
    \/ RefreshClose(t)
    \/ Finish(t)

Step(t) == Start(t) \/ Body(t)

\* no other thread is inside a handler
Alone(t) == \A u \in Threads \ {t} : pc[u] = "idle"

\* requests served one at a time
Next == Tick \/ \E t \in Threads : Alone(t) /\ Step(t)

Spec == Init /\ [][Next]_vars

\* a step that touches nothing but the thread's own data and its response
Local(u) == pc[u] \in {"ld_fetch_ch", "ld_fetch_st", "rf_fetch_ch", "rf_fetch_st",
                      "ld_parse", "index", "detail", "play", "done"}

\* no other thread has such a step pending: those steps commute with the
\* steps of the other threads and are taken first
Ready(t) == \A u \in Threads \ {t} : ~Local(u)

\* the thread holds fetched feeds that it has not finished writing
Flushing(u) == pc[u] \in {"ld_open", "ld_write", "ld_close", "rf_open", "rf_write", "rf_close"}

\* requests served by concurrent threads (the development server is threaded);
\* the interleavings are those of the file accesses: the clock is taken to
\* advance between them, not during the write of a snapshot
ConcNext == \/ (\A u \in Threads : ~Local(u) /\ ~Flushing(u)) /\ Tick
            \/ \E t \in Threads : Ready(t) /\ (ConcStart(t) \/ Body(t))

ConcSpec == Init /\ [][ConcNext]_vars

\* ------------------------------------------------------------------------
\* Properties
\* ------------------------------------------------------------------------
FetchSteps == {"ld_fetch_ch", "ld_fetch_st", "rf_fetch_ch", "rf_fetch_st"}
WriteSteps == {"ld_open", "ld_write", "ld_close", "rf_open", "rf_write", "rf_close"}

\* a writer has opened the file and not closed it yet
Writing == \E t \in Threads : pc[t] \in {"ld_write", "ld_close", "rf_write", "rf_close"}

\* the text is one complete snapshot, both parts fetched by the same operation
OneSnapshot(text) ==
    /\ WellFormed(text)
    /\ text[1].v.shape = "list"
    /\ text[2].v.shape = "list"
    /\ text[1].v.op = text[2].v.op

\* C1 (stale fallback): a load_data call that found the artifact not fresh,
\* whose fetch failed, and for which an artifact exists on disk, returns maps
\* instead of raising.
C1_StaleFallback ==
    \A t \in Threads :
        (/\ pc[t] = "done"
         /\ load[t].state # "none"
         /\ ~load[t].fresh
         /\ load[t].error = "FetchError"
         /\ file.exists)
        => load[t].state = "returned"

\* C2 (total unavailability): when a fetch of load_data fails while no artifact
\* exists, the handler ends in an error response, load_data returns no maps and
\* the step creates no artifact.
C2_TotalUnavailability ==
    [][\A t \in Threads :
        (/\ pc[t] \in {"ld_fetch_ch", "ld_fetch_st"}
         /\ ~file.exists
         /\ load'[t].error = "FetchError")
        => (/\ pc'[t] = "done"
            /\ resp'[t].status = 500
            /\ resp'[t].error = "FetchError"
            /\ load'[t].state = "raised"
            /\ maps'[t] = NoMaps
            /\ ~file'.exists)]_vars

C2_Witness ==
    \E t \in Threads :
        /\ pc[t] = "done"
        /\ load[t].state = "raised"
        /\ load[t].error = "FetchError"
        /\ resp[t].status = 500
        /\ ~file.exists

\* C3 (atomic snapshot, untouched on failure): with requests served one at a
\* time, the file changes only in the write steps of an operation that fetched
\* both feeds itself; whenever no write is in progress an existing file holds
\* one complete snapshot whose two parts come from the same operation; a step
\* in which a fetch fails ends in an error response and leaves the file
\* (content and mtime) as it was.
C3_AtomicSnapshot ==
    [][/\ (~Writing' /\ file'.exists) => OneSnapshot(file'.text)
       /\ file' # file =>
            \E t \in Threads : /\ pc[t] \in WriteSteps
                               /\ loc[t].channels_raw.shape = "list"
                               /\ loc[t].streams_raw.shape = "list"
                               /\ loc[t].channels_raw.op = req[t].op
                               /\ loc[t].streams_raw.op = req[t].op
       /\ \A t \in Threads :
            (pc[t] \in FetchSteps /\ pc'[t] = "done")
            => (file' = file /\ resp'[t].status = 500)]_vars

C3_Witness ==
    \E t \in Threads :
        /\ pc[t] = "done"
        /\ req[t].kind = "refresh"
        /\ resp[t].status = 500
        /\ loc[t].channels_raw.shape = "list"
        /\ file.exists
        /\ OneSnapshot(file.text)
        /\ file.text[1].v.op < req[t].op

\* C4 (no torn read): with concurrent threads, the text a load_data call read
\* from a fresh artifact is one complete snapshot, never an empty, partial or
\* mixed content.
C4_NoTornRead ==
    \A t \in Threads :
        (load[t].fresh /\ pc[t] # "ld_read") => OneSnapshot(load[t].text)

\* C5 (idempotence within the TTL): a load_data call issued while the artifact
\* is younger than the TTL, right after a load_data call that returned, makes
\* no remote fetch, does not raise, and returns the maps built from the
\* snapshot in the file.
C5_IdempotentWithinTtl ==
    \A t \in Threads :
        (/\ load[t].state # "none"
         /\ load[t].within
         /\ prev.kind = "load"
         /\ prev.state = "returned")
        => (/\ load[t].fetches = 0
            /\ load[t].state # "raised"
            /\ load[t].state = "returned" =>
                  maps[t] = BuildMaps(JsonLoad(file.text).payload).maps)

C5_Witness ==
    \E t \in Threads :
        /\ load[t].state = "returned"
        /\ load[t].within
        /\ load[t].fetches = 0
        /\ prev.kind = "load"
        /\ prev.state = "returned"
        /\ maps[t].streams_by_channel # <<>>

\* C6 (cross-reference consistency): in the maps load_data returns, every key
\* of streams_by_channel is a key of channels_by_id, every stream under key k
\* has channel = k, and no key has an empty list.
C6_CrossReference ==
    \A t \in Threads :
        load[t].state = "returned" =>
            LET cbi == maps[t].channels_by_id
                sbc == maps[t].streams_by_channel
            IN \A i \in 1..Len(sbc) :
                 /\ DictHas(cbi, sbc[i].k)
                 /\ sbc[i].v # <<>>
                 /\ \A j \in 1..Len(sbc[i].v) : sbc[i].v[j].channel = sbc[i].k

C6_Witness ==
    \E t \in Threads :
        /\ load[t].state = "returned"
        /\ load[t].fresh
        /\ InList(sGhost, loc[t].payload.streams.items)
        /\ Len(maps[t].streams_by_channel) >= 2

\* C7 (freshness): for every TTL, the freshness check is true exactly when the
\* artifact exists and now - mtime < ttl (strictly), hence false without an
\* artifact; and load_data takes the branch the check gives.
TtlValues == {0, 1, CACHE_TTL_SECONDS - 1, CACHE_TTL_SECONDS, CACHE_TTL_SECONDS + 1}

C7_Freshness ==
    /\ \A ttl \in TtlValues :
         IsCacheFresh(file, now, ttl) <=> (file.exists /\ now - file.mtime < ttl)
    /\ \A t \in Threads :
         load[t].state # "none" => (load[t].fresh <=> load[t].within)

C7_Witness ==
    /\ file.exists
    /\ now - file.mtime = CACHE_TTL_SECONDS
    /\ \E t \in Threads : /\ pc[t] = "ld_fetch_ch"
                          /\ load[t].fetches = 0
                          /\ ~load[t].fresh

\* C8 (orphan / malformed dropping): no stream record of the payload that lacks
\* a channel, lacks a url, or names a channel id absent from the channel list
\* appears in a list of the streams_by_channel map load_data returns.
PayloadChannelIds(p) ==
    {p.channels.items[j].id : j \in {n \in 1..Len(p.channels.items) :
                                        "id" \in DOMAIN p.channels.items[n]}}

Dropped(s, p) ==
    \/ ~Truthy(Get(s, "channel"))
    \/ ~Truthy(Get(s, "url"))
    \/ Get(s, "channel") \notin PayloadChannelIds(p)

C8_OrphanMalformedDropped ==
    \A t \in Threads :
        load[t].state = "returned" =>
            LET p == loc[t].payload
                sbc == maps[t].streams_by_channel
            IN \A n \in 1..Len(p.streams.items) :
                 Dropped(p.streams.items[n], p) =>
                    \A i \in 1..Len(sbc) : \A j \in 1..Len(sbc[i].v) :
                       sbc[i].v[j] # Stream(p.streams.items[n])

C8_Witness ==
    \E t \in Threads :
        /\ load[t].state = "returned"
        /\ InList(sGhost, loc[t].payload.streams.items)
        /\ InList(sNoUrl, loc[t].payload.streams.items)
        /\ InList(sNoCh, loc[t].payload.streams.items)
        /\ maps[t].streams_by_channel # <<>>

\* C9 (listing exclusion): a channel of channels_by_id without a stream is in
\* no item of the index listing, whatever the filter, and the detail page of
\* such a channel still resolves (200, the channel, no streams).
C9_ListingExclusion ==
    \A t \in Threads :
        LET cbi == maps[t].channels_by_id
            sbc == maps[t].streams_by_channel
        IN /\ (pc[t] = "done" /\ resp[t].view = "index") =>
                \A i \in 1..Len(resp[t].items) :
                    /\ DictHas(sbc, resp[t].items[i].channel.id)
                    /\ resp[t].items[i].streams # <<>>
           /\ (/\ pc[t] = "done"
               /\ resp[t].view = "detail"
               /\ DictHas(cbi, resp[t].channel_id)
               /\ ~DictHas(sbc, resp[t].channel_id)) =>
                    /\ resp[t].status = 200
                    /\ resp[t].ch = DictGet(cbi, resp[t].channel_id)
                    /\ resp[t].streams = <<>>

C9_Witness ==
    \E t \in Threads :
        /\ pc[t] = "done"
        /\ resp[t].view = "index"
        /\ resp[t].q = <<>>
        /\ resp[t].category = <<>>
        /\ resp[t].items # <<>>
        /\ \E i \in 1..Len(maps[t].channels_by_id) :
             /\ ~DictHas(maps[t].streams_by_channel, maps[t].channels_by_id[i].k)
             /\ maps[t].channels_by_id[i].v.country = resp[t].country

C11_ManualRefresh ==
    /\ \A t \in Threads :
         (pc[t] = "done" /\ req[t].kind = "refresh" /\ resp[t].status = 302)
         => (/\ loc[t].channels_raw.op = req[t].op
             /\ loc[t].streams_raw.op = req[t].op
             /\ file.exists
             /\ file.text = JsonDump(loc[t].payload))
    /\ \A t \in Threads :
         (/\ load[t].state \in {"returned", "raised"}
          /\ load[t].within
          /\ prev.kind = "refresh"
          /\ prev.state = "returned")
         => (/\ load[t].fetches = 0
             /\ load[t].state = "returned"
             /\ load[t].text = prev.text
             /\ maps[t] = BuildMaps(JsonLoad(prev.text).payload).maps)

\* text occurs in s, letter case ignored
CaseInsensitiveIn(text, s) ==
    \E i \in 0..(Len(s) - Len(text)) :
        \A j \in 1..Len(text) : LowerChar(s[i + j]) = LowerChar(text[j])

\* C12 (filter semantics): a channel with at least one stream is in the index
\* listing iff (no country filter or its country equals it) and (no category
\* filter or the category is one of its categories) and (no text or the text
\* occurs, case ignored, in its name or its id); every listed channel comes
\* with exactly its list of streams_by_channel.
C12_FilterSemantics ==
    \A t \in Threads :
        (pc[t] = "done" /\ resp[t].view = "index") =>
            LET cbi == maps[t].channels_by_id
                sbc == maps[t].streams_by_channel
                items == resp[t].items
                text == Strip(OrElse(resp[t].args.q, <<>>))
                country == resp[t].country
                category == resp[t].category
                Passes(ch) ==
                    /\ country = <<>> \/ ch.country = country
                    /\ category = <<>> \/ \E n \in 1..Len(ch.categories) :
                                               ch.categories[n] = category
                    /\ \/ text = <<>>
                       \/ CaseInsensitiveIn(text, ch.name)
                       \/ CaseInsensitiveIn(text, ch.id)
            IN /\ \A i \in 1..Len(cbi) :
                    DictHas(sbc, cbi[i].k) =>
                        ((\E n \in 1..Len(items) : items[n].channel = cbi[i].v)
                            <=> Passes(cbi[i].v))
               /\ \A n \in 1..Len(items) :
                    /\ DictHas(cbi, items[n].channel.id)
                    /\ items[n].channel = DictGet(cbi, items[n].channel.id)
                    /\ DictHas(sbc, items[n].channel.id)
                    /\ items[n].streams = DictGet(sbc, items[n].channel.id)

C12_Witness ==
    \E t \in Threads :
        /\ pc[t] = "done"
        /\ resp[t].view = "index"
        /\ resp[t].q # <<>>
        /\ resp[t].country # <<>>
        /\ resp[t].category # <<>>
        /\ \E n \in 1..Len(resp[t].items) :
              ~Contains(Lower(resp[t].items[n].channel.name), resp[t].q)
        /\ \E i \in 1..Len(maps[t].streams_by_channel) :
              \A n \in 1..Len(resp[t].items) :
                  resp[t].items[n].channel.id # maps[t].streams_by_channel[i].k

\* C13 (listing order): the items of the index listing are in ascending order
\* of the lower-cased channel name, and they are the channels that passed the
\* filter, each once.
C13_ListingOrder ==
    \A t \in Threads :
        (pc[t] = "done" /\ resp[t].view = "index") =>
            LET items == resp[t].items
                passed == ItemsLoop(maps[t].channels_by_id, maps[t].streams_by_channel,
                                    resp[t].q, resp[t].country, resp[t].category)
            IN /\ \A i \in 1..Len(items) : \A j \in (i + 1)..Len(items) :
                    ~StrLess(Lower(items[j].channel.name), Lower(items[i].channel.name))
               /\ Len(items) = Len(passed)
               /\ \A i \in 1..Len(passed) :
                    Cardinality({n \in 1..Len(items) : items[n] = passed[i]})
                      = Cardinality({n \in 1..Len(passed) : passed[n] = passed[i]})

C13_Witness ==
    \E t \in Threads :
        /\ pc[t] = "done"
        /\ resp[t].view = "index"
        /\ \E i \in 1..Len(resp[t].items) : \E j \in (i + 1)..Len(resp[t].items) :
              StrLess(resp[t].items[j].channel.name, resp[t].items[i].channel.name)

\* C14 (degraded listing): when load_data fails during an index request, the
\* request completes with an empty listing instead of an error leaving the
\* handler.
C14_DegradedListing ==
    \A t \in Threads :
        (pc[t] = "done" /\ req[t].kind = "index" /\ load[t].state = "raised")
        => (/\ resp[t].status = 200
            /\ resp[t].view = "index"
            /\ resp[t].items = <<>>)

\* C17 (unparsable payload is not persisted): after a cache-miss load_data
\* call that fetched both feeds and then failed while building the maps, the
\* file does not hold the payload of that call.
C17_UnparsableNotPersisted ==
    \A t \in Threads :
        (/\ load[t].state = "raised"
         /\ ~load[t].fresh
         /\ load[t].fetches = 2
         /\ load[t].error # "FetchError")
        => ~(/\ file.exists
             /\ WellFormed(file.text)
             /\ file.text[1].v.op = req[t].op)

\* C18 (all-countries option): an index request whose country parameter is
\* present but empty lists the channels of every country that pass the other
\* filters; the default country is applied when the parameter is absent.
C18_AllCountries ==
    \A t \in Threads :
        (pc[t] = "done" /\ resp[t].view = "index") =>
            /\ resp[t].args.country = None => resp[t].country = DefaultCountry
            /\ resp[t].args.country = <<>> =>
                 LET passed == ItemsLoop(maps[t].channels_by_id,
                                         maps[t].streams_by_channel,
                                         resp[t].q, <<>>, resp[t].category)
                 IN \A i \in 1..Len(passed) :
                      \E n \in 1..Len(resp[t].items) : resp[t].items[n] = passed[i]

\* C16 (stable, complete grouping): in the maps load_data returns, the list
\* under channel id k is exactly the stream records of the payload that have
\* channel k and a non-empty url, one entry per record, in the order of the
\* payload; ids without such a record, and unknown ids, are not keys.
ExpectedGroup(p, k) ==
    LET keep == SelectSeq(p.streams.items,
                          LAMBDA s : Get(s, "channel") = k /\ Truthy(Get(s, "url")))
    IN [i \in 1..Len(keep) |-> Stream(keep[i])]

C16_StableGrouping ==
    \A t \in Threads :
        load[t].state = "returned" =>
            LET p == loc[t].payload
                sbc == maps[t].streams_by_channel
            IN /\ DictKeys(sbc) \subseteq PayloadChannelIds(p)
               /\ \A k \in PayloadChannelIds(p) :
                    IF ~Truthy(k) \/ ExpectedGroup(p, k) = <<>>
                    THEN ~DictHas(sbc, k)
                    ELSE DictHas(sbc, k) /\ DictGet(sbc, k) = ExpectedGroup(p, k)

C16_Witness ==
    \E t \in Threads :
        /\ load[t].state = "returned"
        /\ InList(sGhost, loc[t].payload.streams.items)
        /\ InList(sNoUrl, loc[t].payload.streams.items)
        /\ \E i \in 1..Len(maps[t].streams_by_channel) :
              /\ Len(maps[t].streams_by_channel[i].v) >= 2
              /\ maps[t].streams_by_channel[i].v[1] # maps[t].streams_by_channel[i].v[2]

\* C19 (play guards): a play request starts the player at most once, and only
\* with the stream at the requested index of the requested channel's list in
\* the maps it loaded; an id without streams ends in 404 and an index below 0
\* or not below the length of the list in 400, both without starting the player.
LaunchesOf(op) == {i \in 1..Len(launched) : launched[i].op = op}

C19_PlayGuards ==
    \A t \in Threads :
        req[t].kind = "play" =>
            LET L == LaunchesOf(req[t].op)
                sbc == maps[t].streams_by_channel
            IN /\ Cardinality(L) <= 1
               /\ (pc[t] # "done" \/ resp[t].view # "play") => L = {}
               /\ (pc[t] = "done" /\ resp[t].view = "play") =>
                    LET cid == resp[t].form.channel_id
                        idx == resp[t].form.stream_index
                    IN IF ~DictHas(sbc, cid)
                       THEN resp[t].status = 404 /\ L = {}
                       ELSE IF idx < 0 \/ idx >= Len(DictGet(sbc, cid))
                       THEN resp[t].status = 400 /\ L = {}
                       ELSE /\ resp[t].status = 302
                            /\ Cardinality(L) = 1
                            /\ \A i \in L : launched[i].url = DictGet(sbc, cid)[idx + 1].url

C19_Witness ==
    \E t \in Threads :
        /\ pc[t] = "done"
        /\ req[t].kind = "play"
        /\ resp[t].status = 400
        /\ resp[t].form.stream_index < 0
        /\ launched # <<>>

\* the file changes only in the write steps of an operation that fetched both
\* feeds itself
ChangedByRefreshOnly ==
    file' # file =>
        \E t \in Threads : /\ pc[t] \in WriteSteps
                           /\ loc[t].channels_raw.shape = "list"
                           /\ loc[t].streams_raw.shape = "list"
                           /\ loc[t].channels_raw.op = req[t].op
                           /\ loc[t].streams_raw.op = req[t].op

\* no step of a load_data call that took the cache-hit branch changes the file
ReadsLeaveFile ==
    (\E t \in Threads : load[t].fresh \/ load'[t].fresh) => file' = file

\* C15 as stated (snapshot lifecycle): the file changes only through a
\* successful refresh, a load_data call served from a fresh artifact leaves
\* content and mtime unchanged, and the data such a call returns was fetched
\* less than the TTL ago.
C15_SnapshotLifecycle ==
    [][/\ ChangedByRefreshOnly
       /\ ReadsLeaveFile
       /\ \A t \in Threads :
            (load[t].state # "returned" /\ load'[t].state = "returned" /\ load'[t].fresh)
            => now' - fetched' < CACHE_TTL_SECONDS]_vars

\* C15 as amended: the file changes only through a successful refresh, a
\* load_data call served from a fresh artifact leaves content and mtime
\* unchanged, and a call takes the cache-hit branch only if, at its freshness
\* check, the file was last written less than the TTL ago (the data in it
\* having been fetched no later than that write).
C15_SnapshotLifecycleAmended ==
    [][/\ ChangedByRefreshOnly
       /\ ReadsLeaveFile
       /\ \A t \in Threads :
            (pc[t] = "ld_check" /\ load'[t].fresh)
            => (/\ file.exists
                /\ now - file.mtime < CACHE_TTL_SECONDS
                /\ fetched <= file.mtime)]_vars

C15_Witness ==
    \E t \in Threads :
        /\ load[t].state = "returned"
        /\ load[t].fresh
        /\ fetched < file.mtime
        /\ file.mtime < now
        /\ file.text = load[t].text

\* C20 (play matches what was shown): the stream a play request starts is the
\* one the page rendered just before it showed for that channel at that index,
\* whatever happened to the cache between the rendering and the play request.
C20_PlayMatchesShown ==
    \A t \in Threads :
        (/\ pc[t] = "done"
         /\ req[t].kind = "play"
         /\ resp[t].view = "play"
         /\ resp[t].status = 302
         /\ DictHas(prev.page, resp[t].form.channel_id)
         /\ resp[t].form.stream_index < Len(DictGet(prev.page, resp[t].form.channel_id)))
        => \A i \in LaunchesOf(req[t].op) :
              launched[i].url =
                  DictGet(prev.page, resp[t].form.channel_id)[resp[t].form.stream_index + 1].url

====
